---- MODULE Spec2Model ----
(***************************************************************************)
(* PoCForge Web API (backend/main.py): the POST /analyze endpoint.         *)
(*                                                                         *)
(* A request arrives with a JSON body, FastAPI parses the body into an     *)
(* AnalyzeRequest (cve_id: str), and the coroutine analyze_cve builds the  *)
(* mock PoCForgeResponse from request.cve_id and returns it in an          *)
(* AnalyzeResponse.  The subprocess call is commented out in the source,   *)
(* so the handler starts no child process.                                 *)
(*                                                                         *)
(* Strings that the claims inspect character by character (the cve_id)     *)
(* are sequences of one-character strings; all other strings are atoms.    *)
(* The float success_rate is kept as a whole number of percent.            *)
(***************************************************************************)
EXTENDS Integers, Sequences, FiniteSets, TLC

VARIABLES pc, body, raised, response, spawned

vars == <<pc, body, raised, response, spawned>>

\* ------------------------------------------------------------------ bounds
MaxRequests == 2

MaxSeqLen == 5

Requests == 1..MaxRequests

\* ------------------------------------------------------- request bodies
DigitRun == <<"1", "2", "3", "4", "5", "6", "7", "8", "9">>

Prefixes == {<<"C", "V", "E">>, <<"c", "v", "e">>}

Years == {<<"2", "4">>, <<"2", "0", "2", "4">>}

SeqNumbers == {SubSeq(DigitRun, 1, n) : n \in 2..MaxSeqLen}

CveIdInputs ==
    {p \o <<"-">> \o y \o <<"-">> \o s : p \in Prefixes, y \in Years, s \in SeqNumbers}
        \cup {<<>>, <<"N", "O", "T", "-", "A", "-", "C", "V", "E">>}

\* class AnalyzeRequest(BaseModel): cve_id: str.  A JSON body either
\* carries a string cve_id or does not (field missing or null).
AnalyzeRequest(cve_id) == [has_cve_id |-> TRUE, cve_id |-> cve_id]

BodyWithoutCveId == [has_cve_id |-> FALSE, cve_id |-> <<>>]

Bodies == {AnalyzeRequest(s) : s \in CveIdInputs} \cup {BodyWithoutCveId}

StubBodies ==
    {AnalyzeRequest(<<"C", "V", "E", "-", "2", "0", "2", "4", "-", "1", "2", "3", "4">>),
     BodyWithoutCveId}

\* ------------------------------------------------------------ exceptions
NoException == [class |-> "none", msg |-> ""]

ExceptionClasses == {"TimeoutExpired", "CalledProcessError", "JSONDecodeError", "OSError"}

ExceptionMessages == {"boom", "not json"}

Exceptions == [class : ExceptionClasses, msg : ExceptionMessages]

\* ------------------------------------------------------ response schema
MockCommit ==
    [url     |-> "https://github.com/example/repo/commit/abc123",
     sha     |-> "abc123",
     message |-> "Fix vulnerability in example function",
     repo    |-> "example/repo",
     date    |-> "2025-07-08"]

MockPoC ==
    [commit_url          |-> "https://github.com/example/repo/commit/abc123",
     commit_sha          |-> "abc123",
     vulnerable_function |-> "executeCommand",
     attack_vector       |-> "Command injection via malicious input",
     vulnerable_code     |-> "const result = execSync(userInput);",
     fixed_code          |-> "const result = execFileSync(command, args);",
     test_case           |-> "const malicious = \"ls; rm -rf /\"; executeCommand(malicious);",
     prerequisites       |-> <<"Access to vulnerable function", "Valid input parameters">>,
     reasoning           |-> "The original code used string concatenation with execSync which allows command injection",
     method              |-> "git_extraction"]

MockPackage ==
    [name                |-> "example-package",
     ecosystem           |-> "npm",
     vulnerable_versions |-> "< 2.5.0",
     patched_versions    |-> "2.5.0",
     commits             |-> <<MockCommit>>,
     pocs                |-> <<MockPoC>>]

\* (mutant) the record's PoC counter is left at zero
MockCVEUncounted(cve_id) ==
    [cve_id         |-> cve_id,
     summary        |-> "Mock vulnerability in example package",
     severity       |-> "HIGH",
     published_at   |-> "2025-07-08T20:47:53+00:00",
     packages       |-> <<MockPackage>>,
     pocs_generated |-> 0]

MockCVE(cve_id) ==
    [cve_id         |-> cve_id,
     summary        |-> "Mock vulnerability in example package",
     severity       |-> "HIGH",
     published_at   |-> "2025-07-08T20:47:53+00:00",
     packages       |-> <<MockPackage>>,
     pocs_generated |-> 1]

\* (mutant) the success rate is left at zero
MockSummaryNoRate ==
    [total_cves |-> 1, total_packages |-> 1, pocs_generated |-> 1, success_rate |-> 0]

MockSummary ==
    [total_cves     |-> 1,
     total_packages |-> 1,
     pocs_generated |-> 1,
     success_rate   |-> 100]

MockSearchParams(cve_id) ==
    [hours      |-> 24,
     target_cve |-> cve_id,
     timestamp  |-> "2025-07-09T07:28:55.488209+00:00"]

MockResponse(cve_id) ==
    [search_params |-> MockSearchParams(cve_id),
     cves          |-> <<MockCVE(cve_id)>>,
     summary       |-> MockSummary]

\* An HTTP response: its status and its JSON body.  keys is the set of
\* top-level keys of the body; an Optional value is a sequence of length
\* 0 (null) or 1.
NoResponse ==
    [status |-> 0, keys |-> {}, success |-> FALSE,
     data |-> <<>>, error |-> <<>>, detail |-> <<>>]

AnalyzeResponse(success, data, error) ==
    [status |-> 200, keys |-> {"success", "data", "error"}, success |-> success,
     data |-> data, error |-> error, detail |-> <<>>]

HTTPException(status_code, detail) ==
    [status |-> status_code, keys |-> {"detail"}, success |-> FALSE,
     data |-> <<>>, error |-> <<>>, detail |-> detail]

\* FastAPI's answer to a body that does not parse into AnalyzeRequest.
RequestValidationError == HTTPException(422, <<"Field required">>)

\* ------------------------------------------------------------ the handler
\* (mutant) the identifier is kept in one module-level slot that the latest
\* request being handled overwrites
RequestCveIdShared(r) ==
    body[CHOOSE q \in Requests :
            /\ pc[q] = "handling"
            /\ \A p \in Requests : pc[p] = "handling" => p <= q].cve_id

\* request.cve_id as the handler reads it
RequestCveId(r) == body[r].cve_id

\* (mutant) the generic clause comes first and catches the timeout too
HandleExceptionGenericFirst(e) == HTTPException(500, <<"Analysis failed: ", e.msg>>)

\* except subprocess.TimeoutExpired: ... except Exception as e: ...
HandleException(e) ==
    IF e.class = "TimeoutExpired"
    THEN HTTPException(408, <<"Analysis timeout">>)
    ELSE HTTPException(500, <<"Analysis failed: ", e.msg>>)

\* the whole coroutine: the try body, or the except clause that catches
\* what the try body raised
AnalyzeCveResult(r) ==
    IF raised[r] = NoException
    THEN AnalyzeResponse(TRUE, <<MockResponse(RequestCveId(r))>>, <<>>)
    ELSE HandleException(raised[r])

\* ---------------------------------------------------------------- state
Init ==
    /\ pc = [r \in Requests |-> "idle"]
    /\ body = [r \in Requests |-> BodyWithoutCveId]
    /\ raised = [r \in Requests |-> NoException]
    /\ response = [r \in Requests |-> NoResponse]
    /\ spawned = [r \in Requests |-> 0]

\* a client sends POST /analyze
Receive(r) ==
    /\ pc[r] = "idle"
    /\ \E b \in Bodies : body' = [body EXCEPT ![r] = b]
    /\ pc' = [pc EXCEPT ![r] = "received"]
    /\ UNCHANGED <<raised, response, spawned>>

\* FastAPI parses the body into the handler's AnalyzeRequest parameter
ParseBody(r) ==
    /\ pc[r] = "received"
    /\ IF body[r].has_cve_id
       THEN /\ pc' = [pc EXCEPT ![r] = "handling"]
            /\ UNCHANGED response
       ELSE /\ pc' = [pc EXCEPT ![r] = "done"]
            /\ response' = [response EXCEPT ![r] = RequestValidationError]
    /\ UNCHANGED <<body, raised, spawned>>

\* the coroutine analyze_cve runs to completion (it has no await)
AnalyzeCve(r) ==
    /\ pc[r] = "handling"
    /\ response' = [response EXCEPT ![r] = AnalyzeCveResult(r)]
    /\ pc' = [pc EXCEPT ![r] = "done"]
    /\ UNCHANGED <<body, raised, spawned>>

Step(r) == ParseBody(r) \/ AnalyzeCve(r)

Next ==
    \/ \E r \in Requests : Receive(r)
    \/ \E r \in Requests : ParseBody(r)
    \/ \E r \in Requests : AnalyzeCve(r)

Spec == Init /\ [][Next]_vars

\* The handler with its try body stubbed to raise: the except clauses of
\* analyze_cve applied to each exception class.
ReceiveStubbed(r) ==
    /\ pc[r] = "idle"
    /\ \E b \in StubBodies : body' = [body EXCEPT ![r] = b]
    /\ \E e \in Exceptions \cup {NoException} : raised' = [raised EXCEPT ![r] = e]
    /\ pc' = [pc EXCEPT ![r] = "received"]
    /\ UNCHANGED <<response, spawned>>

NextStub ==
    \/ \E r \in Requests : ReceiveStubbed(r)
    \/ \E r \in Requests : ParseBody(r)
    \/ \E r \in Requests : AnalyzeCve(r)

SpecStub == Init /\ [][NextStub]_vars

\* ------------------------------------------------- vocabulary of the claims
Done(r) == pc[r] = "done"

Handled(r) == Done(r) /\ body[r].has_cve_id

IsDigit(c) == c \in {"0", "1", "2", "3", "4", "5", "6", "7", "8", "9"}

UpperChar(c) ==
    CASE c = "c" -> "C"
      [] c = "v" -> "V"
      [] c = "e" -> "E"
      [] OTHER -> c

ToUpper(s) == [i \in 1..Len(s) |-> UpperChar(s[i])]

\* ^CVE-\d{4}-\d{4,}$
MatchesCvePattern(s) ==
    /\ Len(s) >= 13
    /\ SubSeq(s, 1, 4) = <<"C", "V", "E", "-">>
    /\ \A i \in 5..8 : IsDigit(s[i])
    /\ s[9] = "-"
    /\ \A i \in 10..Len(s) : IsDigit(s[i])

ValidCveId(s) == MatchesCvePattern(ToUpper(s))

CanonicalCveId == <<"C", "V", "E", "-", "2", "0", "2", "4", "-", "1", "2", "3", "4">>

IsEnvelope(resp) ==
    /\ resp.keys = {"success", "data", "error"}
    /\ resp.success => Len(resp.data) = 1 /\ Len(resp.error) = 0
    /\ ~resp.success => Len(resp.error) = 1 /\ Len(resp.data) = 0

IsSuccess(resp) == resp.status = 200 /\ "success" \in resp.keys /\ resp.success

RECURSIVE SumOver(_, _)
SumOver(seq, i) == IF i > Len(seq) THEN 0 ELSE seq[i] + SumOver(seq, i + 1)

PocCount(cve) == SumOver([i \in 1..Len(cve.packages) |-> Len(cve.packages[i].pocs)], 1)

\* ------------------------------------------------------------------ claims

\* C1: a request whose cve_id is empty or does not match ^CVE-\d{4}-\d{4,}$
\* after uppercasing ends rejected with a client-error response, never a
\* success response, and no child process was started for it.
C1_InvalidRejected ==
    \A r \in Requests :
        Handled(r) /\ ~ValidCveId(body[r].cve_id)
            => /\ response[r].status \in 400..499
               /\ ~IsSuccess(response[r])
               /\ spawned[r] = 0

\* C2: a cve_id matching the pattern in any letter case is accepted and the
\* identifier carried in search_params.target_cve and in every cves[*].cve_id
\* is the uppercase form of the input.
C2_UppercaseNormalized ==
    \A r \in Requests :
        Handled(r) /\ ValidCveId(body[r].cve_id)
            => /\ IsSuccess(response[r])
               /\ LET d == response[r].data[1] IN
                    /\ d.search_params.target_cve = ToUpper(body[r].cve_id)
                    /\ \A i \in 1..Len(d.cves) : d.cves[i].cve_id = ToUpper(body[r].cve_id)

\* C3: every response body produced for POST /analyze is an AnalysisResponse
\* envelope with exactly one of data/error populated, as success says.
C3_AlwaysEnvelope ==
    \A r \in Requests : Done(r) => IsEnvelope(response[r])

C5_ExactlyOneSpawn ==
    \A r \in Requests :
        Handled(r) /\ ValidCveId(body[r].cve_id) => spawned[r] = 1

\* C7: with several requests in flight, each response is determined by the
\* request's own cve_id alone, and a request that is in flight can always
\* take its next step whatever the other requests are doing.
C7_RequestsIndependent ==
    \A r \in Requests :
        /\ Handled(r)
              => response[r] = AnalyzeResponse(TRUE, <<MockResponse(body[r].cve_id)>>, <<>>)
        /\ pc[r] \in {"received", "handling"} => ENABLED Step(r)

C7_Witness ==
    \E r, q \in Requests :
        /\ pc[r] = "handling"
        /\ Handled(q)
        /\ body[q].cve_id # body[r].cve_id
        /\ IsSuccess(response[q])

\* C9: POST /analyze with cve_id CVE-2024-1234 returns success = true with
\* summary.success_rate = 100.0 and cves[0].packages[0].pocs[0].method =
\* "git_extraction".
C9_FixtureScenario ==
    \A r \in Requests :
        Done(r) /\ body[r] = AnalyzeRequest(CanonicalCveId)
            => /\ IsSuccess(response[r])
               /\ response[r].data[1].summary.success_rate = 100
               /\ response[r].data[1].cves[1].packages[1].pocs[1].method = "git_extraction"

C9_Witness ==
    \E r \in Requests :
        /\ Done(r)
        /\ body[r] = AnalyzeRequest(CanonicalCveId)
        /\ response[r].status = 200

\* C10: in every success response the aggregate fields agree with the
\* arrays: each record's pocs_generated counts its packages' PoCs, the
\* summary counts the records, their packages and their PoCs, and
\* target_cve is the cve_id of every record.
C10_AggregatesAgree ==
    \A r \in Requests :
        Done(r) /\ IsSuccess(response[r]) =>
            LET d == response[r].data[1] IN
              /\ \A i \in 1..Len(d.cves) : d.cves[i].pocs_generated = PocCount(d.cves[i])
              /\ d.summary.total_cves = Len(d.cves)
              /\ d.summary.total_packages
                    = SumOver([i \in 1..Len(d.cves) |-> Len(d.cves[i].packages)], 1)
              /\ d.summary.pocs_generated
                    = SumOver([i \in 1..Len(d.cves) |-> d.cves[i].pocs_generated], 1)
              /\ \A i \in 1..Len(d.cves) : d.cves[i].cve_id = d.search_params.target_cve

C10_Witness ==
    \E r \in Requests :
        /\ Done(r)
        /\ IsSuccess(response[r])
        /\ Len(response[r].data[1].cves) = 1
        /\ PocCount(response[r].data[1].cves[1]) = 1

====
